---- MODULE Spec2Model ----
(***************************************************************************)
(* Model of the file source driver of syslog-ng,                           *)
(* modules/affile/affile-source.c.                                         *)
(*                                                                         *)
(* One process hosts one AFFileSourceDriver instance at a time.  The       *)
(* instance is built by affile_sd_new, its multi-line options are set by   *)
(* the configuration, and the pipeline engine then calls its init, queue,  *)
(* deinit, generate_persist_name and free_fn methods.  None of the methods *)
(* checks the state it is called in, so the model lets each be called in   *)
(* every state of a live instance.  The collaborators the driver calls     *)
(* (the generic source driver, the FileReader, stat) answer                *)
(* nondeterministically.  The model is of a Linux build (__linux__).       *)
(***************************************************************************)
EXTENDS Integers, Sequences, FiniteSets, TLC

(***************************************************************************)
(* Bounds                                                                  *)
(***************************************************************************)
\* drivers constructed by one process
MaxDrivers == 2
\* FileReaders one driver may construct (bounds repeated init calls)
MaxReaders == 2

(***************************************************************************)
(* Program constants                                                       *)
(***************************************************************************)
\* the version threshold of cfg_is_config_version_older(cfg, 0x0300)
VERSION_VALUE_3_0 == 768
\* follow_freq of ordinary files, in milliseconds
FOLLOW_FREQ_DEFAULT == 1000

\* the build defines __linux__
linux == TRUE

\* the file names a source is configured with
Filenames == {"/proc/kmsg", "/dev/kmsg", "/var/log/app.log"}
\* the configuration versions: 2.255 (the last one older than 3.0) and 3.0
Versions == {VERSION_VALUE_3_0 - 1, VERSION_VALUE_3_0}
\* what stat() finds at the file name: nothing (stat fails), or the file type
StatResults == {"ENOENT", "S_IFREG", "S_IFCHR"}
\* multi-line-mode()
MultiLineModes == {"MLM_NONE", "MLM_INDENTED", "MLM_PREFIX_GARBAGE", "MLM_PREFIX_SUFFIX"}

VARIABLES
  life,          \* "none": no instance, "live": between affile_sd_new and free_fn, "freed"
  self,          \* the AFFileSourceDriver structure
  env,           \* the cfg version and the stat() answer affile_sd_new was given
  state,         \* the lifecycle state of the instance
  readersNew,    \* FileReaders constructed by this instance
  readersUnref,  \* FileReader references dropped by this instance
  openersFreed,  \* file_opener_free calls of this instance
  last,          \* the last method called on the instance and what it did
  warned,        \* the flag of msg_warning_once for the follow_freq warning
  warnings,      \* follow_freq warnings emitted by this process
  built,         \* drivers constructed by this process
  legacyBuilt,   \* those of them constructed under a configuration older than 3.0
  crashed,       \* the process died of a NULL dereference
  seen           \* a persist name a query of the first driver of a process returned,
                 \* with the file name and the opener of that driver

vars == <<life, self, env, state, readersNew, readersUnref, openersFreed, last,
          warned, warnings, built, legacyBuilt, crashed, seen>>

(***************************************************************************)
(* Values                                                                  *)
(***************************************************************************)
\* file_reader == NULL
NullReader ==
  [id |-> 0, filename |-> "", opener |-> "", pipe_next |-> "NULL", initialized |-> FALSE]

\* file_opener == NULL
NullOpener == [kind |-> "", id |-> 0, options |-> "NULL"]

\* g_new0: every field zero
ZeroDriver ==
  [filename |-> "", follow_freq |-> 0, restore_state |-> FALSE,
   needs_privileges |-> FALSE, file_opener |-> NullOpener,
   mode |-> "MLM_NONE", prefix |-> FALSE, garbage |-> FALSE,
   initialized |-> FALSE, file_reader |-> NullReader]

NoEnv == [version |-> 0, st |-> ""]
NoCall == [op |-> "", from |-> "", ret |-> TRUE, null |-> FALSE, key |-> <<>>, calls |-> <<>>]
NoSeen == [filename |-> "", opener |-> "", key |-> <<>>]

(***************************************************************************)
(* Collaborators: the configuration, the message log, the generic source   *)
(* driver, the pipe graph and the FileReader                               *)
(***************************************************************************)
\* cfg_is_config_version_older(cfg, req)
cfg_is_config_version_older(version, req) == version < req

\* msg_warning_once: the message goes out unless the flag is set, and sets it
msg_warning_once(flag, count) ==
  [warned |-> TRUE, warnings |-> IF flag THEN count ELSE count + 1]

\* file_reader_new(filename, options, opener, owner, cfg)
file_reader_new(id, filename, opener) ==
  [id |-> id, filename |-> filename, opener |-> opener.kind,
   pipe_next |-> "NULL", initialized |-> FALSE]

\* log_pipe_append(s, next): s->pipe_next = next
log_pipe_append(reader, next) == [reader EXCEPT !.pipe_next = next]

\* log_pipe_init(reader): the outcome is the reader's
log_pipe_init(reader, ok) == [reader EXCEPT !.initialized = ok]

\* log_pipe_deinit(reader): the outcome is the reader's
log_pipe_deinit(reader, ok) ==
  [reader EXCEPT !.initialized = IF ok THEN FALSE ELSE reader.initialized]

\* log_pipe_unref(reader) drops one reference, count being the references
\* dropped so far; log_pipe_unref(NULL) does nothing
log_pipe_unref(reader, count) == IF reader.id # 0 THEN count + 1 ELSE count

\* log_pipe_get_persist_name(reader): the reader's name is made of its file
\* name and what its opener adds to it
log_pipe_get_persist_name(reader) ==
  <<"affile_sd_curpos", reader.filename, reader.opener>>

(***************************************************************************)
(* affile-source.c                                                         *)
(***************************************************************************)
\* a build that leaves the comparison out
is_linux_proc_kmsg_never(filename) == FALSE

is_linux_proc_kmsg(filename) == linux /\ filename = "/proc/kmsg"

\* a build that leaves the comparison out
is_linux_dev_kmsg_never(filename) == FALSE

is_linux_dev_kmsg(filename) == linux /\ filename = "/dev/kmsg"

\* a failed stat taken for a device
is_device_node_on_error(st) == IF st = "ENOENT" THEN TRUE ELSE st # "S_IFREG"

\* the test of the file type inverted
is_device_node_inverted(st) == IF st = "ENOENT" THEN FALSE ELSE st = "S_IFREG"

\* st is what stat(filename) finds
is_device_node(st) == IF st = "ENOENT" THEN FALSE ELSE st # "S_IFREG"

\* a name that tells whether the reader is running
affile_sd_format_persist_name_of_state(s) ==
  log_pipe_get_persist_name(s.file_reader) \o <<s.file_reader.initialized>>

affile_sd_format_persist_name(s) == log_pipe_get_persist_name(s.file_reader)

\* only the mode none tested
are_multi_line_settings_invalid_none_only(s) ==
  s.mode = "MLM_NONE" /\ (s.prefix \/ s.garbage)

are_multi_line_settings_invalid(s) ==
  LET is_garbage_mode == s.mode = "MLM_PREFIX_GARBAGE"
      is_suffix_mode  == s.mode = "MLM_PREFIX_SUFFIX"
  IN  (~is_garbage_mode /\ ~is_suffix_mode) /\ (s.prefix \/ s.garbage)

\* one collaborator call of a method, with what it returned
Call(fn, ret) == [fn |-> fn, ret |-> ret]

\* an init that turns the follow_freq of the old versions into the default
affile_sd_init_resets_follow_freq(s, id, src_ok, rd_ok) ==
  IF ~src_ok
  THEN [self |-> s, ret |-> FALSE,
        calls |-> <<Call("log_src_driver_init_method", FALSE)>>]
  ELSE
    LET opener == [s.file_opener EXCEPT !.options = "file_opener_options"]
        s1 == [s EXCEPT !.initialized = TRUE,
                        !.follow_freq = IF s.follow_freq < 0
                                        THEN FOLLOW_FREQ_DEFAULT ELSE s.follow_freq,
                        !.file_opener = opener,
                        !.file_reader = file_reader_new(id, s.filename, opener)]
        c1 == <<Call("log_src_driver_init_method", TRUE), Call("file_reader_new", TRUE)>>
    IN  IF are_multi_line_settings_invalid(s1)
        THEN [self |-> s1, ret |-> FALSE, calls |-> c1]
        ELSE
          LET linked == log_pipe_append(s1.file_reader, "driver")
          IN  [self  |-> [s1 EXCEPT !.file_reader = log_pipe_init(linked, rd_ok)],
               ret   |-> rd_ok,
               calls |-> c1 \o <<Call("log_pipe_append", TRUE), Call("log_pipe_init", rd_ok)>>]

\* affile_sd_init; id names the FileReader it constructs, src_ok and rd_ok are
\* the answers of log_src_driver_init_method and of the reader's init
affile_sd_init(s, id, src_ok, rd_ok) ==
  IF ~src_ok
  THEN [self |-> s, ret |-> FALSE,
        calls |-> <<Call("log_src_driver_init_method", FALSE)>>]
  ELSE
    LET opener == [s.file_opener EXCEPT !.options = "file_opener_options"]
        s1 == [s EXCEPT !.initialized = TRUE,
                        !.file_opener = opener,
                        !.file_reader = file_reader_new(id, s.filename, opener)]
        c1 == <<Call("log_src_driver_init_method", TRUE), Call("file_reader_new", TRUE)>>
    IN  IF are_multi_line_settings_invalid(s1)
        THEN [self |-> s1, ret |-> FALSE, calls |-> c1]
        ELSE
          LET linked == log_pipe_append(s1.file_reader, "driver")
          IN  [self  |-> [s1 EXCEPT !.file_reader = log_pipe_init(linked, rd_ok)],
               ret   |-> rd_ok,
               calls |-> c1 \o <<Call("log_pipe_append", TRUE), Call("log_pipe_init", rd_ok)>>]

\* the generic deinit run before the reader's
affile_sd_deinit_generic_first(s, rd_ok, src_ok) ==
  LET c1 == <<Call("log_src_driver_deinit_method", src_ok)>>
  IN  IF ~src_ok
      THEN [self |-> s, ret |-> FALSE, calls |-> c1]
      ELSE [self  |-> [s EXCEPT !.initialized = FALSE,
                                !.file_reader = log_pipe_deinit(s.file_reader, rd_ok)],
            ret   |-> TRUE,
            calls |-> c1 \o <<Call("log_pipe_deinit", rd_ok)>>]

\* affile_sd_deinit; rd_ok and src_ok are the answers of the reader's deinit and
\* of log_src_driver_deinit_method
affile_sd_deinit(s, rd_ok, src_ok) ==
  LET s1 == [s EXCEPT !.file_reader = log_pipe_deinit(s.file_reader, rd_ok)]
      c1 == <<Call("log_pipe_deinit", rd_ok), Call("log_src_driver_deinit_method", src_ok)>>
  IN  IF ~src_ok
      THEN [self |-> s1, ret |-> FALSE, calls |-> c1]
      ELSE [self |-> [s1 EXCEPT !.initialized = FALSE], ret |-> TRUE, calls |-> c1]

\* a free that returns at once when there is no reader
affile_sd_free_needs_reader(s, freed, unref) ==
  IF s.file_reader.id = 0
  THEN [openersFreed |-> freed, readersUnref |-> unref, calls |-> <<>>]
  ELSE [openersFreed |-> freed + 1,
        readersUnref |-> log_pipe_unref(s.file_reader, unref),
        calls |-> <<Call("file_opener_free", TRUE), Call("log_pipe_unref", TRUE),
                    Call("log_src_driver_free", TRUE)>>]

\* affile_sd_free; freed and unref count the openers freed and the reader
\* references dropped so far
affile_sd_free(s, freed, unref) ==
  [openersFreed |-> freed + 1,
   readersUnref |-> log_pipe_unref(s.file_reader, unref),
   calls |-> <<Call("file_opener_free", TRUE), Call("log_pipe_unref", TRUE),
               Call("log_src_driver_free", TRUE)>>]

affile_sd_new_instance(filename) == [ZeroDriver EXCEPT !.filename = filename]

\* the old configuration versions given the follow_freq of a device
default_follow_freq_legacy_zero(filename, version, st) ==
  IF cfg_is_config_version_older(version, VERSION_VALUE_3_0)
  THEN 0
  ELSE IF is_device_node(st) \/ is_linux_proc_kmsg(filename)
       THEN 0
       ELSE FOLLOW_FREQ_DEFAULT

\* the follow_freq affile_sd_new sets
default_follow_freq(filename, version, st) ==
  IF cfg_is_config_version_older(version, VERSION_VALUE_3_0)
  THEN -1
  ELSE IF is_device_node(st) \/ is_linux_proc_kmsg(filename)
       THEN 0
       ELSE FOLLOW_FREQ_DEFAULT

\* the file name looked at before the follow_freq
select_file_opener_by_name_first(follow_freq, filename) ==
  IF is_linux_proc_kmsg(filename) THEN "file_opener_for_prockmsg"
  ELSE IF is_linux_dev_kmsg(filename) THEN "file_opener_for_devkmsg"
  ELSE "file_opener_for_regular_source_files"

\* the opener affile_sd_new constructs
select_file_opener(follow_freq, filename) ==
  IF follow_freq > 0 THEN "file_opener_for_regular_source_files"
  ELSE IF is_linux_proc_kmsg(filename) THEN "file_opener_for_prockmsg"
  ELSE IF is_linux_dev_kmsg(filename) THEN "file_opener_for_devkmsg"
  ELSE "file_opener_for_regular_source_files"

\* the warning given on every construction
follow_freq_warning_always(version, flag, count) == msg_warning_once(flag, count)

\* the warning affile_sd_new gives: flag and count are the flag of
\* msg_warning_once and the warnings given so far
follow_freq_warning(version, flag, count) ==
  IF cfg_is_config_version_older(version, VERSION_VALUE_3_0)
  THEN msg_warning_once(flag, count)
  ELSE [warned |-> flag, warnings |-> count]

\* restore_state set for every follow_freq that is not negative
affile_sd_new_restore_nonneg(filename, version, st) ==
  LET s0 == affile_sd_new_instance(filename)
      ff == default_follow_freq(filename, version, st)
  IN  [s0 EXCEPT !.follow_freq = ff,
                 !.needs_privileges = ~(ff > 0) /\ is_linux_proc_kmsg(s0.filename),
                 !.file_opener = [kind |-> select_file_opener(ff, s0.filename),
                                  id |-> 1, options |-> "NULL"],
                 !.restore_state = ff >= 0]

\* needs_privileges set for /dev/kmsg as well
affile_sd_new_privileged_kmsg(filename, version, st) ==
  LET s0 == affile_sd_new_instance(filename)
      ff == default_follow_freq(filename, version, st)
  IN  [s0 EXCEPT !.follow_freq = ff,
                 !.needs_privileges =
                    ~(ff > 0) /\ (is_linux_proc_kmsg(s0.filename)
                                    \/ is_linux_dev_kmsg(s0.filename)),
                 !.file_opener = [kind |-> select_file_opener(ff, s0.filename),
                                  id |-> 1, options |-> "NULL"],
                 !.restore_state = ff > 0]

affile_sd_new(filename, version, st) ==
  LET s0 == affile_sd_new_instance(filename)
      ff == default_follow_freq(filename, version, st)
  IN  [s0 EXCEPT !.follow_freq = ff,
                 !.needs_privileges = ~(ff > 0) /\ is_linux_proc_kmsg(s0.filename),
                 !.file_opener = [kind |-> select_file_opener(ff, s0.filename),
                                  id |-> 1, options |-> "NULL"],
                 !.restore_state = ff > 0]

(***************************************************************************)
(* Actions                                                                 *)
(***************************************************************************)
Running == ~crashed

Live == Running /\ life = "live"

HasReader == self.file_reader.id # 0

\* the configuration constructs a file source
New ==
  /\ Running /\ life \in {"none", "freed"} /\ built < MaxDrivers
  /\ \E filename \in Filenames, version \in Versions, st \in StatResults :
       LET w == follow_freq_warning(version, warned, warnings)
       IN  /\ self' = affile_sd_new(filename, version, st)
           /\ legacyBuilt' = IF cfg_is_config_version_older(version, VERSION_VALUE_3_0)
                             THEN legacyBuilt + 1 ELSE legacyBuilt
           /\ env' = [version |-> version, st |-> st]
           /\ warned' = w.warned
           /\ warnings' = w.warnings
  /\ life' = "live"
  /\ state' = "Uninitialized"
  /\ built' = built + 1
  /\ readersNew' = 0 /\ readersUnref' = 0 /\ openersFreed' = 0
  /\ last' = [NoCall EXCEPT !.op = "new"]
  /\ UNCHANGED <<crashed, seen>>

\* the configuration sets multi-line-mode(), multi-line-prefix() and
\* multi-line-garbage() of the source, before the source is initialized
Configure ==
  /\ Live /\ last.op = "new"
  /\ \E mode \in MultiLineModes, prefix \in BOOLEAN, garbage \in BOOLEAN :
       self' = [self EXCEPT !.mode = mode, !.prefix = prefix, !.garbage = garbage]
  /\ last' = [NoCall EXCEPT !.op = "configure"]
  /\ UNCHANGED <<life, env, state, readersNew, readersUnref, openersFreed,
                 warned, warnings, built, legacyBuilt, crashed, seen>>

Init ==
  /\ Live /\ readersNew < MaxReaders
  /\ \E src_ok \in BOOLEAN :
     \E rd_ok \in (IF src_ok /\ ~are_multi_line_settings_invalid(self)
                   THEN BOOLEAN ELSE {FALSE}) :
       LET r == affile_sd_init(self, readersNew + 1, src_ok, rd_ok)
       IN  /\ self' = r.self
           /\ readersNew' = IF r.self.file_reader.id = readersNew + 1
                            THEN readersNew + 1 ELSE readersNew
           /\ state' = IF r.ret THEN "Initialized" ELSE state
           /\ last' = [NoCall EXCEPT !.op = "init", !.from = state,
                                     !.ret = r.ret, !.calls = r.calls]
  /\ UNCHANGED <<life, env, readersUnref, openersFreed,
                 warned, warnings, built, legacyBuilt, crashed, seen>>

\* affile_sd_queue hands the message to log_src_driver_queue_method
Queue ==
  /\ Live
  /\ last' = [NoCall EXCEPT !.op = "queue", !.from = state,
                            !.calls = <<Call("log_src_driver_queue_method", TRUE)>>]
  /\ UNCHANGED <<life, self, env, state, readersNew, readersUnref, openersFreed,
                 warned, warnings, built, legacyBuilt, crashed, seen>>

\* generate_persist_name; with file_reader == NULL the call reads through a
\* NULL pointer: the process dies, or the read yields whatever is there
PersistName ==
  /\ Live
  /\ IF HasReader
     THEN LET key == affile_sd_format_persist_name(self)
          IN  /\ last' = [NoCall EXCEPT !.op = "persist_name", !.from = state, !.key = key]
              /\ \E record \in (IF built = 1 THEN BOOLEAN ELSE {FALSE}) :
                   seen' = IF record
                           THEN [filename |-> self.filename,
                                 opener |-> self.file_opener.kind, key |-> key]
                           ELSE seen
              /\ UNCHANGED crashed
     ELSE /\ \E dies \in BOOLEAN :
               /\ crashed' = dies
               /\ last' = [NoCall EXCEPT !.op = "persist_name", !.from = state,
                                         !.null = TRUE, !.key = <<"garbage">>]
          /\ UNCHANGED seen
  /\ UNCHANGED <<life, self, env, state, readersNew, readersUnref, openersFreed,
                 warned, warnings, built, legacyBuilt>>

\* with file_reader == NULL, log_pipe_deinit reads through a NULL pointer
Deinit ==
  /\ Live
  /\ \E rd_ok \in BOOLEAN, src_ok \in BOOLEAN,
        dies \in (IF HasReader THEN {FALSE} ELSE BOOLEAN) :
       LET r == affile_sd_deinit(self, rd_ok, src_ok)
       IN  IF ~HasReader /\ dies
           THEN /\ crashed' = TRUE
                /\ last' = [NoCall EXCEPT !.op = "deinit", !.from = state, !.null = TRUE]
                /\ UNCHANGED <<self, state>>
           ELSE /\ self' = [r.self EXCEPT !.file_reader =
                              IF HasReader THEN r.self.file_reader ELSE NullReader]
                /\ state' = "Deinitialized"
                /\ last' = [NoCall EXCEPT !.op = "deinit", !.from = state,
                                          !.null = ~HasReader,
                                          !.ret = r.ret, !.calls = r.calls]
                /\ UNCHANGED crashed
  /\ UNCHANGED <<life, env, readersNew, readersUnref, openersFreed,
                 warned, warnings, built, legacyBuilt, seen>>

\* affile_sd_free; log_pipe_unref(NULL) does nothing
Free ==
  /\ Live
  /\ LET r == affile_sd_free(self, openersFreed, readersUnref)
     IN  /\ openersFreed' = r.openersFreed
         /\ readersUnref' = r.readersUnref
         /\ last' = [NoCall EXCEPT !.op = "free", !.from = state, !.null = ~HasReader,
                                   !.calls = r.calls]
  /\ life' = "freed"
  /\ self' = ZeroDriver
  /\ env' = NoEnv
  /\ state' = "Freed"
  /\ UNCHANGED <<readersNew, warned, warnings, built, legacyBuilt, crashed, seen>>

\* the process ends, by a crash or after its source is freed, and a new one
\* starts; what the persistent store was told survives
Restart ==
  /\ crashed \/ life = "freed"
  /\ life' = "none"
  /\ self' = ZeroDriver
  /\ env' = NoEnv
  /\ state' = "None"
  /\ readersNew' = 0 /\ readersUnref' = 0 /\ openersFreed' = 0
  /\ last' = NoCall
  /\ warned' = FALSE /\ warnings' = 0 /\ built' = 0 /\ legacyBuilt' = 0
  /\ crashed' = FALSE
  /\ UNCHANGED seen

Init0 ==
  /\ life = "none"
  /\ self = ZeroDriver
  /\ env = NoEnv
  /\ state = "None"
  /\ readersNew = 0 /\ readersUnref = 0 /\ openersFreed = 0
  /\ last = NoCall
  /\ warned = FALSE /\ warnings = 0 /\ built = 0 /\ legacyBuilt = 0
  /\ crashed = FALSE
  /\ seen = NoSeen

Next ==
  \/ New
  \/ Configure
  \/ Init
  \/ Queue
  \/ PersistName
  \/ Deinit
  \/ Free
  \/ Restart

Spec == Init0 /\ [][Next]_vars

TypeOK ==
  /\ life \in {"none", "live", "freed"}
  /\ readersNew \in 0..MaxReaders
  /\ readersUnref \in 0..1
  /\ built \in 0..MaxDrivers

(***************************************************************************)
(* Properties                                                              *)
(***************************************************************************)
Legacy == cfg_is_config_version_older(env.version, VERSION_VALUE_3_0)

\* the last method called was fn and it has returned
Returned(fn) == life = "live" /\ ~crashed /\ last.op = fn

\* the last method called the collaborator fn
Called(fn) == \E i \in DOMAIN last.calls : last.calls[i].fn = fn

\* the last method called the collaborator fn and it answered ret
Answered(fn, ret) == \E i \in DOMAIN last.calls : last.calls[i] = Call(fn, ret)

\* C1: when init is called with invalid multi-line settings it returns FALSE,
\* no FileReader has been constructed, the generic source driver init is not
\* left in effect and the reader is not linked to the driver.
C1_InvalidFramingLeavesNothing ==
  (Returned("init") /\ are_multi_line_settings_invalid(self))
    => /\ last.ret = FALSE
       /\ ~HasReader
       /\ ~self.initialized
       /\ self.file_reader.pipe_next # "driver"

\* C2: when the reader's init fails, init returns FALSE and the reader is not
\* linked to the driver.
C2_ReaderInitFailureUnlinks ==
  (Returned("init") /\ Answered("log_pipe_init", FALSE))
    => /\ last.ret = FALSE
       /\ self.file_reader.pipe_next # "driver"

\* C3: init called on an Initialized or a Deinitialized driver is rejected: it
\* constructs no FileReader and does not (re-)enter Initialized.
C3_InitializeOnlyFromUninitialized ==
  (Returned("init") /\ last.from \in {"Initialized", "Deinitialized"})
    => /\ ~Called("file_reader_new")
       /\ last.ret = FALSE
       /\ state = last.from

\* C4: deinit returns TRUE only if every collaborator deinit it ran returned
\* TRUE.
C4_DeinitFailureNeverIgnored ==
  (Returned("deinit") /\ ~last.null /\ last.ret = TRUE)
    => \A i \in DOMAIN last.calls : last.calls[i].ret = TRUE

\* C5: the persist name query never acts on an absent FileReader, in whatever
\* state of a live driver it is made.
C5_PersistNameAlwaysAnswerable ==
  (life = "live" /\ last.op = "persist_name") => ~last.null

\* C6: the persist name of a driver is its reader's, and every query made of a
\* driver of the same file name and opener returns the same name: queries of
\* one driver, whatever happened to it in between, and queries of different
\* drivers, of one process or of a process and its successor.
C6_PersistNameStable ==
  (Returned("persist_name") /\ ~last.null)
    => /\ last.key = log_pipe_get_persist_name(self.file_reader)
       /\ (seen # NoSeen /\ seen.filename = self.filename
                          /\ seen.opener = self.file_opener.kind)
            => last.key = seen.key

\* a second driver is asked its name after the first one, of the same file
\* name and opener, was
C6_Witness ==
  /\ Returned("persist_name") /\ ~last.null
  /\ built = 2 /\ seen # NoSeen
  /\ seen.filename = self.filename /\ seen.opener = self.file_opener.kind
  /\ state = "Deinitialized"

\* C7 as stated: /dev/kmsg under a configuration of version 3.0 or later gets
\* follow_freq 0 and the /dev/kmsg opener whatever stat finds.
C7_DevKmsgWhateverStat ==
  (life = "live" /\ self.filename = "/dev/kmsg" /\ ~Legacy)
    => /\ self.follow_freq = 0
       /\ self.file_opener.kind = "file_opener_for_devkmsg"

\* C7: /dev/kmsg under a configuration of version 3.0 or later gets
\* follow_freq 0 and the /dev/kmsg opener when stat finds something that is
\* not a regular file there; when stat fails or finds a regular file, it gets
\* follow_freq 1000 and the opener of regular files.
C7_DevKmsgByStat ==
  (life = "live" /\ self.filename = "/dev/kmsg" /\ ~Legacy)
    => IF env.st \notin {"ENOENT", "S_IFREG"}
       THEN /\ self.follow_freq = 0
            /\ self.file_opener.kind = "file_opener_for_devkmsg"
       ELSE /\ self.follow_freq = 1000
            /\ self.file_opener.kind = "file_opener_for_regular_source_files"

C7_Witness ==
  /\ life = "live" /\ last.op = "new"
  /\ self.filename = "/dev/kmsg" /\ ~Legacy /\ env.st = "S_IFCHR"
  /\ self.file_opener.kind = "file_opener_for_devkmsg"

\* C8: /proc/kmsg under a configuration of version 3.0 or later gets
\* follow_freq 0, needs_privileges, no restore_state and the /proc/kmsg opener,
\* whatever stat finds.
C8_ProcKmsg ==
  (life = "live" /\ self.filename = "/proc/kmsg" /\ ~Legacy)
    => /\ self.follow_freq = 0
       /\ self.needs_privileges
       /\ ~self.restore_state
       /\ self.file_opener.kind = "file_opener_for_prockmsg"

C8_Witness ==
  /\ life = "live" /\ last.op = "new"
  /\ self.filename = "/proc/kmsg" /\ ~Legacy /\ env.st = "S_IFREG"
  /\ self.needs_privileges

\* C9: a regular file that is not /proc/kmsg, under a configuration of version
\* 3.0 or later, gets follow_freq 1000, the opener of regular files,
\* restore_state and no needs_privileges.
C9_RegularFile ==
  (life = "live" /\ env.st = "S_IFREG" /\ self.filename # "/proc/kmsg" /\ ~Legacy)
    => /\ self.follow_freq = 1000
       /\ self.file_opener.kind = "file_opener_for_regular_source_files"
       /\ self.restore_state
       /\ ~self.needs_privileges

C9_Witness ==
  /\ life = "live" /\ last.op = "new"
  /\ self.filename = "/var/log/app.log" /\ ~Legacy /\ env.st = "S_IFREG"
  /\ self.follow_freq = 1000

\* C10: under a configuration older than version 3.0, every file name and every
\* answer of stat get follow_freq -1 and no restore_state.
C10_LegacyFollowFreq ==
  (life = "live" /\ Legacy)
    => /\ self.follow_freq = -1
       /\ ~self.restore_state

C10_Witness ==
  /\ life = "live" /\ last.op = "new"
  /\ Legacy /\ self.filename = "/proc/kmsg" /\ env.st = "S_IFCHR"
  /\ self.follow_freq = -1

\* C11: in every state of a process the follow_freq warning has been given
\* once if a driver has been constructed under a configuration older than 3.0,
\* and not at all otherwise: the first such construction gives it and no later
\* one gives it again.
C11_WarningOnce ==
  warnings = IF legacyBuilt > 0 THEN 1 ELSE 0

\* the second construction under an old configuration
C11_Witness ==
  /\ life = "live" /\ last.op = "new"
  /\ legacyBuilt = 2 /\ Legacy /\ warnings = 1

\* C12: restore_state equals follow_freq > 0 in every state of a live driver,
\* from affile_sd_new on and after every init, queue and deinit.
C12_RestoreStateIffFollowing ==
  life = "live" => (self.restore_state <=> (self.follow_freq > 0))

C12_Witness ==
  /\ Returned("queue") /\ state = "Deinitialized" /\ readersNew > 0
  /\ self.follow_freq = 0 /\ ~self.restore_state

\* C13: init returns TRUE exactly when log_src_driver_init_method succeeded,
\* the multi-line settings are valid and the reader's init succeeded; the
\* settings are invalid exactly when the mode is neither prefix-garbage nor
\* prefix-suffix and a prefix or a garbage pattern is set.
C13_InitSucceedsIff ==
  Returned("init")
    => (last.ret <=>
          /\ Answered("log_src_driver_init_method", TRUE)
          /\ ~(/\ self.mode \notin {"MLM_PREFIX_GARBAGE", "MLM_PREFIX_SUFFIX"}
               /\ (self.prefix \/ self.garbage))
          /\ Answered("log_pipe_init", TRUE))

C13_Witness ==
  /\ Returned("init") /\ last.ret
  /\ self.mode = "MLM_PREFIX_SUFFIX" /\ self.prefix

\* C14: a driver has one opener, the first that applies of: the opener of
\* regular files if follow_freq > 0, the /proc/kmsg opener for /proc/kmsg, the
\* /dev/kmsg opener for /dev/kmsg, the opener of regular files.
C14_OpenerFirstMatch ==
  life = "live"
    => /\ self.file_opener.id = 1
       /\ self.file_opener.kind =
            CASE self.follow_freq > 0 -> "file_opener_for_regular_source_files"
              [] self.follow_freq <= 0 /\ self.filename = "/proc/kmsg"
                   -> "file_opener_for_prockmsg"
              [] self.follow_freq <= 0 /\ self.filename = "/dev/kmsg"
                   -> "file_opener_for_devkmsg"
              [] OTHER -> "file_opener_for_regular_source_files"

\* /dev/kmsg followed by polling
C14_Witness ==
  /\ life = "live" /\ last.op = "new"
  /\ self.filename = "/dev/kmsg" /\ self.follow_freq > 0
  /\ self.file_opener.kind = "file_opener_for_regular_source_files"

\* C15: a deinit that has returned has called the reader's deinit and then
\* log_src_driver_deinit_method, each once and in that order.
C15_ReaderDeinitFirst ==
  Returned("deinit")
    => /\ Len(last.calls) = 2
       /\ last.calls[1].fn = "log_pipe_deinit"
       /\ last.calls[2].fn = "log_src_driver_deinit_method"

\* the generic deinit failed after the reader's succeeded
C15_Witness ==
  /\ Returned("deinit") /\ ~last.null /\ last.from = "Initialized"
  /\ last.calls = <<Call("log_pipe_deinit", TRUE),
                    Call("log_src_driver_deinit_method", FALSE)>>

\* C16: when stat fails, under a configuration of version 3.0 or later, a file
\* name other than /proc/kmsg gets follow_freq 1000, restore_state and the
\* opener of regular files.
C16_StatFailureIsRegular ==
  (life = "live" /\ env.st = "ENOENT" /\ ~Legacy /\ self.filename # "/proc/kmsg")
    => /\ self.follow_freq = 1000
       /\ self.restore_state
       /\ self.file_opener.kind = "file_opener_for_regular_source_files"

C16_Witness ==
  /\ life = "live" /\ last.op = "new"
  /\ env.st = "ENOENT" /\ ~Legacy /\ self.filename = "/dev/kmsg"
  /\ self.restore_state

C18_ReadersBalanced ==
  life = "freed" => (readersNew <= 1 /\ readersNew = readersUnref)

\* C19: needs_privileges is set exactly when the opener is the /proc/kmsg
\* opener, which is exactly when the file name is /proc/kmsg and follow_freq is
\* not positive.
C19_PrivilegesOnlyProcKmsg ==
  life = "live"
    => /\ self.needs_privileges <=> (self.file_opener.kind = "file_opener_for_prockmsg")
       /\ (self.file_opener.kind = "file_opener_for_prockmsg")
            <=> (self.filename = "/proc/kmsg" /\ ~(self.follow_freq > 0))

C19_Witness ==
  /\ Returned("init") /\ state = "Initialized"
  /\ self.filename = "/proc/kmsg" /\ Legacy /\ self.needs_privileges

\* C20: no step of a live driver that leaves it live (init, queue, the persist
\* name query, deinit) changes its file name, follow_freq, restore_state,
\* needs_privileges or the opener it holds, and none frees the opener.
C20_ConfigurationFixed ==
  [][(life = "live" /\ life' = "live")
       => /\ self'.filename = self.filename
          /\ self'.follow_freq = self.follow_freq
          /\ self'.restore_state = self.restore_state
          /\ self'.needs_privileges = self.needs_privileges
          /\ self'.file_opener.kind = self.file_opener.kind
          /\ self'.file_opener.id = self.file_opener.id
          /\ openersFreed' = openersFreed]_vars

\* a driver under an old configuration initialized and deinitialized
C20_Witness ==
  /\ Returned("deinit") /\ last.from = "Initialized" /\ readersNew = 1
  /\ Legacy /\ self.follow_freq = -1
  /\ self.file_opener.options = "file_opener_options"

====
